---- MODULE Spec2Model ----
(***************************************************************************)
(* Personal AI Legal Assistant: the request pipeline of src/app.py         *)
(* (process_and_display_results) and src/setup_once.py (process_input),    *)
(* with the stages it calls: translate_text, is_legal_query,               *)
(* search_relevant_sections, generate_legal_complaint and generate_pdf.    *)
(*                                                                         *)
(* Python str values are TLA+ strings; Len, SubSeq and \o act on them      *)
(* character by character.  None is the model value NULL.                  *)
(***************************************************************************)
EXTENDS Integers, Sequences, FiniteSets, TLC

VARIABLES
    entry,                \* which script runs: "app" or "setup_once"
    pc,                   \* position of the orchestrator within one request
    original_text,        \* argument original_text
    detected_language,    \* argument detected_language
    output_language,      \* argument output_language (the selectbox)
    today,                \* datetime.now().strftime("%B %d, %Y")
    text_for_processing,  \* local text_for_processing
    is_legal,             \* local is_legal
    ipc_sections,         \* local ipc_sections
    english_complaint,    \* local english_complaint
    final_complaint,      \* local final_complaint
    calls,                \* the stage calls made so far, in order
    ui,                   \* what streamlit has been asked to show, in order
    exception             \* the exception that left the orchestrator, or NULL

vars == <<entry, pc, original_text, detected_language, output_language, today,
          text_for_processing, is_legal, ipc_sections, english_complaint,
          final_complaint, calls, ui, exception>>

NULL == "<None>"

(***************************************************************************)
(* Python string primitives.                                               *)
(***************************************************************************)
\* Python slicing s[m-1:n], 1-based and inclusive, clamped to the string
slice(s, m, n) ==
    LET lo == IF m < 1 THEN 1 ELSE m
        hi == IF n > Len(s) THEN Len(s) ELSE n
    IN  IF lo > hi THEN "" ELSE SubSeq(s, lo, hi)

Char(s, i) == slice(s, i, i)

AsciiUpper == "ABCDEFGHIJKLMNOPQRSTUVWXYZ"

AsciiLower == "abcdefghijklmnopqrstuvwxyz"

LowerOf == [c \in {Char(AsciiUpper, i) : i \in 1..Len(AsciiUpper)} |->
              Char(AsciiLower, CHOOSE i \in 1..Len(AsciiUpper) : Char(AsciiUpper, i) = c)]

UpperOf == [c \in {Char(AsciiLower, i) : i \in 1..Len(AsciiLower)} |->
              Char(AsciiUpper, CHOOSE i \in 1..Len(AsciiLower) : Char(AsciiLower, i) = c)]

\* The character-wise operators below halve the string on each step, which
\* keeps the evaluation depth logarithmic in the length.
left_half(s) == slice(s, 1, Len(s) \div 2)

right_half(s) == slice(s, Len(s) \div 2 + 1, Len(s))

RECURSIVE lower(_)
lower(s) ==
    IF Len(s) = 0 THEN ""
    ELSE IF Len(s) = 1 THEN (IF s \in DOMAIN LowerOf THEN LowerOf[s] ELSE s)
    ELSE lower(left_half(s)) \o lower(right_half(s))

RECURSIVE upper(_)
upper(s) ==
    IF Len(s) = 0 THEN ""
    ELSE IF Len(s) = 1 THEN (IF s \in DOMAIN UpperOf THEN UpperOf[s] ELSE s)
    ELSE upper(left_half(s)) \o upper(right_half(s))

Whitespace == {" ", "\t", "\n", "\r"}

RECURSIVE lstrip(_)
lstrip(s) ==
    IF s # "" /\ Char(s, 1) \in Whitespace THEN lstrip(Tail(s)) ELSE s

RECURSIVE rstrip(_)
rstrip(s) ==
    IF s # "" /\ Char(s, Len(s)) \in Whitespace
    THEN rstrip(slice(s, 1, Len(s) - 1)) ELSE s

strip(s) == lstrip(rstrip(s))

\* Python: needle in hay
str_in(needle, hay) ==
    \E i \in 1..(Len(hay) - Len(needle) + 1) :
        slice(hay, i, i + Len(needle) - 1) = needle

startswith(s, prefix) == slice(s, 1, Len(prefix)) = prefix

\* str.find with a start position, 1-based; 0 when there is no occurrence
find(hay, needle, start) ==
    LET hits == {i \in start..(Len(hay) - Len(needle) + 1) :
                    slice(hay, i, i + Len(needle) - 1) = needle}
    IN  IF hits = {} THEN 0 ELSE CHOOSE i \in hits : \A j \in hits : i <= j

\* str.replace for a one-character old
RECURSIVE replace(_, _, _)
replace(s, old, new) ==
    IF Len(s) = 0 THEN ""
    ELSE IF Len(s) = 1 THEN (IF s = old THEN new ELSE s)
    ELSE replace(left_half(s), old, new) \o replace(right_half(s), old, new)

\* str.split(sep) for a one-character sep: always at least one piece
RECURSIVE split(_, _)
split(s, sep) ==
    LET k == find(s, sep, 1)
    IN  IF k = 0 THEN <<s>>
        ELSE <<slice(s, 1, k - 1)>> \o split(slice(s, k + 1, Len(s)), sep)

\* Python: ch * n
RECURSIVE repeat(_, _)
repeat(ch, n) ==
    IF n <= 0 THEN ""
    ELSE IF n = 1 THEN ch
    ELSE repeat(ch, n \div 2) \o repeat(ch, n - n \div 2)

(***************************************************************************)
(* re.sub(pattern, replacement, text, flags=re.IGNORECASE) for the two     *)
(* pattern shapes of process_text_for_pdf:                                 *)
(*     \[LITERAL.*?\]       any_prefix = FALSE                             *)
(*     \[.*?LITERAL.*?\]    any_prefix = TRUE                              *)
(* '.' matches every character but "\n"; '.*?' is lazy, so the match that  *)
(* starts at a '[' takes the earliest LITERAL and then the first ']'.      *)
(***************************************************************************)
\* variant: the match without flags=re.IGNORECASE
re_match_end_case_sensitive(p, text, i) ==
    LET at    == IF Char(text, i) # "[" THEN 0
                 ELSE IF p.any_prefix THEN find(text, p.literal, i + 1)
                 ELSE IF slice(text, i + 1, i + Len(p.literal)) = p.literal THEN i + 1
                 ELSE 0
        close == IF at = 0 THEN 0 ELSE find(text, "]", at + Len(p.literal))
    IN  IF close = 0 \/ str_in("\n", slice(text, i, close)) THEN 0 ELSE close

\* the index of the ']' ending the match that starts at i, or 0
re_match_end(p, text, i) ==
    LET ltext == lower(text)
        lit   == lower(p.literal)
        at    == IF Char(text, i) # "[" THEN 0
                 ELSE IF p.any_prefix THEN find(ltext, lit, i + 1)
                 ELSE IF slice(ltext, i + 1, i + Len(lit)) = lit THEN i + 1
                 ELSE 0
        close == IF at = 0 THEN 0 ELSE find(text, "]", at + Len(lit))
    IN  IF close = 0 \/ str_in("\n", slice(text, i, close)) THEN 0 ELSE close

\* the leftmost position >= pos where the pattern matches, or 0
re_search(p, text, pos) ==
    LET hits == {i \in pos..Len(text) : re_match_end(p, text, i) # 0}
    IN  IF hits = {} THEN 0 ELSE CHOOSE i \in hits : \A j \in hits : i <= j

RECURSIVE re_sub_from(_, _, _)
re_sub_from(p, text, pos) ==
    LET i == re_search(p, text, pos)
    IN  IF i = 0 THEN slice(text, pos, Len(text))
        ELSE slice(text, pos, i - 1) \o p.replacement
             \o re_sub_from(p, text, re_match_end(p, text, i) + 1)

re_sub(p, text) == re_sub_from(p, text, 1)

(***************************************************************************)
(* generate_pdf: the Document Renderer.                                    *)
(***************************************************************************)
\* variant: "_" * (int(width_inches) * 20), truncating before multiplying
create_blank_line_truncated_first(width_tenths) == repeat("_", (width_tenths \div 10) * 20)

\* create_blank_line(width_inches): "_" * int(width_inches * 20).  Widths
\* are given in tenths of an inch so that 2.5 is the integer 25.
create_blank_line(width_tenths) == repeat("_", (width_tenths * 20) \div 10)

\* the (pattern, replacement) list of process_text_for_pdf, in its order
patterns(now) == <<
    [any_prefix |-> FALSE, literal |-> "Police Station Name", replacement |-> create_blank_line(30)],
    [any_prefix |-> FALSE, literal |-> "City, State, India",  replacement |-> create_blank_line(30)],
    [any_prefix |-> FALSE, literal |-> "Current Date",        replacement |-> now],
    [any_prefix |-> FALSE, literal |-> "Date of incident",    replacement |-> create_blank_line(20)],
    [any_prefix |-> FALSE, literal |-> "Time of incident",    replacement |-> create_blank_line(20)],
    [any_prefix |-> TRUE,  literal |-> "Name",                replacement |-> create_blank_line(30)],
    [any_prefix |-> TRUE,  literal |-> "Address",             replacement |-> create_blank_line(40)],
    [any_prefix |-> TRUE,  literal |-> "Contact",             replacement |-> create_blank_line(25)],
    [any_prefix |-> FALSE, literal |-> "User's Signature",    replacement |-> create_blank_line(25)],
    [any_prefix |-> FALSE, literal |-> "Complainant's",       replacement |-> create_blank_line(30)],
    [any_prefix |-> FALSE, literal |-> "User's",              replacement |-> create_blank_line(30)],
    [any_prefix |-> TRUE,  literal |-> "description of the person", replacement |-> create_blank_line(50)] >>

RECURSIVE apply_patterns(_, _, _)
apply_patterns(ps, k, text) ==
    IF k > Len(ps) THEN text ELSE apply_patterns(ps, k + 1, re_sub(ps[k], text))

process_text_for_pdf(text, now) == apply_patterns(patterns(now), 1, text)

\* .replace('&', '&amp;').replace('<', '&lt;').replace('>', '&gt;')
escape_markup(text) ==
    replace(replace(replace(text, "&", "&amp;"), "<", "&lt;"), ">", "&gt;")

heading_keywords ==
    {"Parties Involved", "Factual Summary", "Applicable Legal Sections",
     "Demand or Request", "Verification", "Date:", "Sender Details", "Signature:"}

\* variant: the title test is len(line) <= 30
line_style_title_upto_30(line) ==
    IF str_in("LEGAL COMPLAINT", upper(line)) /\ Len(line) <= 30 THEN "title_style"
    ELSE IF \E keyword \in heading_keywords : str_in(keyword, line) THEN "heading_style"
    ELSE IF startswith(line, "To,") THEN "address_style"
    ELSE "body_style"

\* the if / elif chain choosing the paragraph style of a stripped line
line_style(line) ==
    IF str_in("LEGAL COMPLAINT", upper(line)) /\ Len(line) < 30 THEN "title_style"
    ELSE IF \E keyword \in heading_keywords : str_in(keyword, line) THEN "heading_style"
    ELSE IF startswith(line, "To,") THEN "address_style"
    ELSE "body_style"

\* the text handed to Paragraph(...) for a stripped, non-blank line, given
\* what process_text_for_pdf(line) returned
paragraph_text(line, substituted) ==
    LET processed_line == escape_markup(substituted)
    IN  IF line_style(line) = "title_style" THEN line ELSE processed_line

\* one iteration of "for line in lines": the flowable appended to elements,
\* with the value process_text_for_pdf(line) had while it was built
flowable(raw_line, now) ==
    LET line == strip(raw_line)
        substituted == process_text_for_pdf(line, now)
    IN  IF line = ""
        THEN [kind |-> "Spacer", line |-> "", substituted |-> "", text |-> "", style |-> NULL]
        ELSE [kind |-> "Paragraph", line |-> line, substituted |-> substituted,
              text |-> paragraph_text(line, substituted), style |-> line_style(line)]

\* the elements list that generate_pdf passes to doc.build
pdf_elements(complaint_text, now) ==
    LET lines == split(complaint_text, "\n")
    IN  [i \in 1..Len(lines) |-> flowable(lines[i], now)]

(***************************************************************************)
(* The stages that call the generative model.  "response" is what          *)
(* model.generate_content(prompt) followed by response.text produced:      *)
(* [raised |-> FALSE, text |-> the text], or [raised |-> TRUE,             *)
(* text |-> str(e)] when the call or the .text accessor raised.            *)
(***************************************************************************)
\* variant: the except branch returns an empty string
translate_text_empty_on_failure(response, text) ==
    IF response.raised THEN "" ELSE strip(response.text)

\* try: return response.text.strip()   except Exception: return text
translate_text(response, text) ==
    IF response.raised THEN text ELSE strip(response.text)

\* variant: the response is not lower-cased before the test
is_legal_query_case_sensitive(response) ==
    IF response.raised THEN FALSE ELSE str_in("yes", strip(response.text))

\* try: return 'yes' in response.text.strip().lower()   except Exception: return False
is_legal_query(response) ==
    IF response.raised THEN FALSE ELSE str_in("yes", lower(strip(response.text)))

\* variant: the except branch returns str(e) without the "Error:" marker
generate_legal_complaint_unmarked(response) == response.text

\* try: return response.text   except Exception as e: return f"Error: ... {e}"
generate_legal_complaint(response) ==
    IF response.raised THEN "Error: Could not generate complaint. " \o response.text
    ELSE response.text

(***************************************************************************)
(* search_relevant_sections.  "answer" is what collection.query did:       *)
(* [raised |-> TRUE, exc |-> name] or [raised |-> FALSE, results |-> r]    *)
(* with r = <<>> for a falsy result and otherwise <<q>> where q.ids,       *)
(* q.metadatas and q.documents are the inner lists results[...][0].  A     *)
(* metadata entry is <<>> for None and <<d>> for the dict d, a function    *)
(* from the keys present to strings.  A document is a string or NULL.      *)
(***************************************************************************)
\* dict.get(key, default)
dict_get(d, key, default) == IF key \in DOMAIN d THEN d[key] ELSE default

\* the loop body: the record appended for hit i (metadata is a dict here)
section_record(q, i) ==
    [section_number |-> dict_get(q.metadatas[i][1], "section_number", "N/A"),
     title          |-> dict_get(q.metadatas[i][1], "title", "N/A"),
     description    |-> q.documents[i]]

\* [raised, exc, value]: the exception that leaves the function, or its list
search_relevant_sections(answer) ==
    IF answer.raised THEN [raised |-> TRUE, exc |-> answer.exc, value |-> <<>>]
    ELSE IF answer.results = <<>> \/ answer.results[1].ids = <<>>
         THEN [raised |-> FALSE, exc |-> NULL, value |-> <<>>]
    ELSE LET q == answer.results[1]
         IN  IF \E i \in 1..Len(q.ids) : q.metadatas[i] = <<>>
             THEN \* None.get(...) raises AttributeError
                  [raised |-> TRUE, exc |-> "AttributeError", value |-> <<>>]
             ELSE [raised |-> FALSE, exc |-> NULL,
                   value |-> [i \in 1..Len(q.ids) |-> section_record(q, i)]]

(***************************************************************************)
(* The inputs of one request and the answers of the external services.     *)
(***************************************************************************)
Entries == {"app", "setup_once"}

Scenario == "A man broke into my house and stole my laptop"

\* None comes from the voice path, when the JSON has no "language" key
DetectedLanguages == {NULL, "English", "english", "Hindi"}

\* the selectbox also offers "Telugu" and "Tamil", which behave as "Hindi"
OutputLanguages == {"Auto-Detect", "English", "Hindi"}

Dates == {"January 05, 2025"}

Text(t) == [raised |-> FALSE, text |-> t]

Raise(e) == [raised |-> TRUE, text |-> e]

ModelFailures == {Raise("429 quota exceeded")}

TranslationResponses == {Text("  A man stole my laptop \n")} \cup ModelFailures

ClassifierResponses == {Text("Yes"), Text("No")} \cup ModelFailures

Draft == "LEGAL COMPLAINT\nTo, [Police Station Name]\n\nDate: [Current Date]\nR&D <Name>\n"

DraftResponses == {Text(Draft)} \cup ModelFailures

TargetResponses == {Text(" KANOONI SHIKAYAT\nSeva mein, [Police Station Name] \n")} \cup ModelFailures

Meta(n, t) == <<[section_number |-> n, title |-> t]>>

Hits(ids, metadatas, documents) ==
    [raised |-> FALSE,
     results |-> <<[ids |-> ids, metadatas |-> metadatas, documents |-> documents]>>]

StoreAnswers ==
    { [raised |-> TRUE, exc |-> "ConnectionError"],
      Hits(<<>>, <<>>, <<>>),
      Hits(<<"ipc-379">>, <<Meta("379", "Theft")>>, <<"Whoever commits theft ...">>),
      Hits(<<"x">>, <<<<>>>>, <<"text">>) }

BuildOutcomes == {[raised |-> FALSE, text |-> ""], Raise("glyph missing from font")}

(***************************************************************************)
(* process_and_display_results (app.py) / process_input (setup_once.py).   *)
(***************************************************************************)
Show(widget, body) == [widget |-> widget, body |-> body]

\* Python truthiness of an optional string
truthy(x) == x # NULL /\ x # ""

\* variant: the comparison without .lower()
not_english_case_sensitive(language) == truthy(language) /\ language # "english"

\* detected_language and detected_language.lower() != "english"
not_english(language) == truthy(language) /\ lower(language) # "english"

\* detected_language if output_language == "Auto-Detect" else output_language
final_output_language(detected, output) ==
    IF output = "Auto-Detect" THEN detected ELSE output

\* variant: the pipeline goes on whatever the classifier said
after_classification_ignored(ret) == "Retrieving"

\* variant: a negative answer sends the request back to the classifier
after_classification_retry(ret) == IF ret THEN "Retrieving" ELSE "Classifying"

\* if is_legal: ... else: st.warning(...)
after_classification(ret) == IF ret THEN "Retrieving" ELSE "Rejected"

\* variant: the text button is created after generate_pdf, inside the try
download_buttons_inside_try(complaint, build, elements) ==
    IF build.raised THEN <<Show("error", "PDF Error: " \o build.text)>>
    ELSE <<Show("legal_complaint.pdf", elements), Show("legal_complaint.txt", complaint)>>

\* the two download columns: the text button, then generate_pdf in try/except
download_buttons(complaint, build, elements) ==
    <<Show("legal_complaint.txt", complaint),
      IF build.raised THEN Show("error", "PDF Error: " \o build.text)
      ELSE Show("legal_complaint.pdf", elements)>>

Call(stage, arg, answer, ret) ==
    [stage |-> stage, arg |-> arg, answer |-> answer, ret |-> ret]

Init ==
    /\ entry \in Entries
    /\ pc = "Received"
    /\ original_text = Scenario
    /\ detected_language \in DetectedLanguages
    /\ output_language \in OutputLanguages
    /\ today \in Dates
    /\ text_for_processing = NULL
    /\ is_legal = FALSE
    /\ ipc_sections = <<>>
    /\ english_complaint = NULL
    /\ final_complaint = NULL
    /\ calls = <<>>
    /\ ui = <<>>
    /\ exception = NULL

\* entry of the function, up to the test that gates the first translation
Begin ==
    /\ pc = "Received"
    /\ IF entry = "setup_once" /\ ~truthy(original_text)
       THEN /\ ui' = ui \o <<Show("error", "Could not get text from input. Please try again."),
                             Show("stop", "")>>
            /\ pc' = "Rejected"
            /\ UNCHANGED text_for_processing
       ELSE /\ text_for_processing' = original_text
            /\ pc' = IF not_english(detected_language)
                     THEN "TranslatingToEnglish" ELSE "Classifying"
            /\ UNCHANGED ui
    /\ UNCHANGED <<entry, original_text, detected_language, output_language, today,
                   is_legal, ipc_sections, english_complaint, final_complaint,
                   calls, exception>>

TranslateToEnglish(responses) ==
    /\ pc = "TranslatingToEnglish"
    /\ \E response \in responses :
        LET ret == translate_text(response, original_text)
        IN  /\ text_for_processing' = ret
            /\ calls' = Append(calls, Call("translate_to_english", original_text, response, ret))
    /\ pc' = "Classifying"
    /\ UNCHANGED <<entry, original_text, detected_language, output_language, today,
                   is_legal, ipc_sections, english_complaint, final_complaint,
                   ui, exception>>

Classify(responses) ==
    /\ pc = "Classifying"
    /\ \E response \in responses :
        LET ret == is_legal_query(response)
        IN  /\ is_legal' = ret
            /\ calls' = Append(calls, Call("is_legal_query", text_for_processing, response, ret))
            /\ pc' = after_classification(ret)
            /\ ui' = IF after_classification(ret) = "Retrieving" THEN Append(ui, Show("success", "Valid legal query detected!"))
                     ELSE ui \o <<Show("warning", "This tool is for Indian legal queries only.")>>
                             \o (IF entry = "setup_once" THEN <<Show("stop", "")>> ELSE <<>>)
    /\ UNCHANGED <<entry, original_text, detected_language, output_language, today,
                   text_for_processing, ipc_sections, english_complaint,
                   final_complaint, exception>>

Retrieve(answers) ==
    /\ pc = "Retrieving"
    /\ \E answer \in answers :
        LET r == search_relevant_sections(answer)
        IN  /\ calls' = Append(calls, Call("search_relevant_sections", text_for_processing, answer, r))
            /\ IF r.raised
               THEN /\ exception' = r.exc
                    /\ pc' = "Aborted"
                    /\ UNCHANGED <<ipc_sections, ui>>
               ELSE /\ ipc_sections' = r.value
                    /\ ui' = Append(ui, Show("sections", r.value))
                    /\ pc' = "Drafting"
                    /\ UNCHANGED exception
    /\ UNCHANGED <<entry, original_text, detected_language, output_language, today,
                   text_for_processing, is_legal, english_complaint, final_complaint>>

Drafting(responses) ==
    /\ pc = "Drafting"
    /\ \E response \in responses :
        LET ret == generate_legal_complaint(response)
        IN  /\ english_complaint' = ret
            /\ final_complaint' = ret
            /\ calls' = Append(calls, Call("generate_legal_complaint", text_for_processing, response, ret))
    /\ IF not_english(final_output_language(detected_language, output_language))
       THEN /\ pc' = "TranslatingToTarget"
            /\ UNCHANGED ui
       ELSE /\ pc' = "Rendering"
            /\ ui' = Append(ui, Show("success", "Complaint generated successfully!"))
    /\ UNCHANGED <<entry, original_text, detected_language, output_language, today,
                   text_for_processing, is_legal, ipc_sections, exception>>

TranslateToTarget(responses) ==
    /\ pc = "TranslatingToTarget"
    /\ \E response \in responses :
        LET ret == translate_text(response, english_complaint)
        IN  /\ final_complaint' = ret
            /\ calls' = Append(calls, Call("translate_to_target", english_complaint, response, ret))
    /\ ui' = Append(ui, Show("success", "Document translated"))
    /\ pc' = "Rendering"
    /\ UNCHANGED <<entry, original_text, detected_language, output_language, today,
                   text_for_processing, is_legal, ipc_sections, english_complaint,
                   exception>>

\* st.markdown, the text download button, then generate_pdf inside try/except
Render(builds) ==
    /\ pc = "Rendering"
    /\ LET elements == pdf_elements(final_complaint, today)
       IN  \E build \in builds :
            /\ calls' = Append(calls, Call("generate_pdf", final_complaint, build, elements))
            /\ ui' = ui \o <<Show("markdown", final_complaint)>>
                       \o download_buttons(final_complaint, build, elements)
    /\ pc' = "Delivered"
    /\ UNCHANGED <<entry, original_text, detected_language, output_language, today,
                   text_for_processing, is_legal, ipc_sections, english_complaint,
                   final_complaint, exception>>

Next ==
    \/ Begin
    \/ TranslateToEnglish(TranslationResponses)
    \/ Classify(ClassifierResponses)
    \/ Retrieve(StoreAnswers)
    \/ Drafting(DraftResponses)
    \/ TranslateToTarget(TargetResponses)
    \/ Render(BuildOutcomes)

Spec == Init /\ [][Next]_vars

(***************************************************************************)
(* is_legal_query on every short response.                                 *)
(***************************************************************************)
MaxResponseLen == 3

ResponseAlphabet == {"y", "Y", "e", "E", "s", "S", "n", " ", "\n"}

RECURSIVE Strings(_, _)
Strings(alphabet, n) ==
    IF n = 0 THEN {""}
    ELSE LET shorter == Strings(alphabet, n - 1)
         IN  shorter \cup {t \o c : t \in shorter, c \in alphabet}

AllClassifierResponses ==
    {Text(t) : t \in Strings(ResponseAlphabet, MaxResponseLen)}
        \cup ModelFailures \cup {Raise("response.text: no valid Part")}

InitClassify ==
    /\ entry \in Entries
    /\ pc = "Classifying"
    /\ original_text = Scenario
    /\ detected_language = "English"
    /\ output_language = "English"
    /\ today \in Dates
    /\ text_for_processing = Scenario
    /\ is_legal = FALSE
    /\ ipc_sections = <<>>
    /\ english_complaint = NULL
    /\ final_complaint = NULL
    /\ calls = <<>>
    /\ ui = <<>>
    /\ exception = NULL

NextClassify == Classify(AllClassifierResponses)

SpecClassify == InitClassify /\ [][NextClassify]_vars

(***************************************************************************)
(* search_relevant_sections on every short store answer.                   *)
(***************************************************************************)
MaxHits == 2

NumResults == 5

MetadataEntries ==
    {<<>>} \cup {<<[key \in keys |-> IF key = "title" THEN "Theft" ELSE "379"]>> :
                    keys \in SUBSET {"section_number", "title"}}

HitLists(n) ==
    {h \in [1..n -> MetadataEntries \X {"Whoever commits theft ...", NULL}] : TRUE}

AllStoreAnswers ==
    { [raised |-> TRUE, exc |-> "ConnectionError"], [raised |-> FALSE, results |-> <<>>] }
    \cup UNION { { Hits([i \in 1..n |-> "id"], [i \in 1..n |-> h[i][1]], [i \in 1..n |-> h[i][2]])
                   : h \in HitLists(n) }
                 : n \in 0..(IF MaxHits < NumResults THEN MaxHits ELSE NumResults) }

InitSearch ==
    /\ entry \in Entries
    /\ pc = "Retrieving"
    /\ original_text = Scenario
    /\ detected_language = "English"
    /\ output_language = "English"
    /\ today \in Dates
    /\ text_for_processing = Scenario
    /\ is_legal = TRUE
    /\ ipc_sections = <<>>
    /\ english_complaint = NULL
    /\ final_complaint = NULL
    /\ calls = <<Call("is_legal_query", Scenario, Text("Yes"), TRUE)>>
    /\ ui = <<Show("success", "Valid legal query detected!")>>
    /\ exception = NULL

NextSearch == Retrieve(AllStoreAnswers)

SpecSearch == InitSearch /\ [][NextSearch]_vars

(***************************************************************************)
(* generate_pdf on every complaint made of a few fragments.                *)
(***************************************************************************)
MaxFragments == 2

Fragments ==
    {"[Police Station Name, City]", "[Date of incident: ___]", "[Contact No.]",
     "[Full Address]", "[description of the person]", "LEGAL COMPLAINT",
     "legal complaint", " AGAINST UNKNOWN PERSON FOR THEFT", "To, ", "Date: ", "\n"}

Complaints == Strings(Fragments, MaxFragments)

\* generate_pdf is the same text in both scripts; app.py's is the one run here
InitPdf ==
    /\ entry = "app"
    /\ pc = "Rendering"
    /\ original_text = Scenario
    /\ detected_language = "English"
    /\ output_language = "English"
    /\ today \in Dates
    /\ text_for_processing = Scenario
    /\ is_legal = TRUE
    /\ ipc_sections = <<>>
    /\ english_complaint \in Complaints
    /\ final_complaint = english_complaint
    /\ calls = <<Call("is_legal_query", Scenario, Text("Yes"), TRUE),
                 Call("search_relevant_sections", Scenario, Hits(<<>>, <<>>, <<>>),
                      [raised |-> FALSE, exc |-> NULL, value |-> <<>>]),
                 Call("generate_legal_complaint", Scenario, Text(english_complaint),
                      english_complaint)>>
    /\ ui = <<Show("success", "Valid legal query detected!"), Show("sections", <<>>),
              Show("success", "Complaint generated successfully!")>>
    /\ exception = NULL

NextPdf == Render(BuildOutcomes)

SpecPdf == InitPdf /\ [][NextPdf]_vars

(***************************************************************************)
(* Properties.                                                             *)
(***************************************************************************)
StagesAfterClassification ==
    {"search_relevant_sections", "generate_legal_complaint", "translate_to_target",
     "generate_pdf"}

ClassifiedFalse ==
    \E i \in DOMAIN calls : calls[i].stage = "is_legal_query" /\ calls[i].ret = FALSE

Shown(widget) == \E k \in DOMAIN ui : ui[k].widget = widget

(* C1: short-circuit.  Once the classification stage has returned false,   *)
(* the request is in the terminal rejection with the out-of-scope warning  *)
(* shown, and no retrieval, drafting, output translation, PDF generation   *)
(* or download button has happened.                                        *)
C1_ShortCircuit ==
    ClassifiedFalse =>
        /\ pc = "Rejected"
        /\ Shown("warning")
        /\ \A i \in DOMAIN calls : calls[i].stage \notin StagesAfterClassification
        /\ ~Shown("legal_complaint.txt") /\ ~Shown("legal_complaint.pdf")
        /\ ~Shown("sections") /\ ~Shown("markdown")

C1_Witness ==
    /\ ClassifiedFalse
    /\ pc = "Rejected"
    /\ calls[Len(calls)].answer = Text("No")

\* "yes" occurs in t in some mix of upper and lower case
ContainsYesAnyCase(t) ==
    \E k \in 1..(Len(t) - 2) :
        /\ Char(t, k) \in {"y", "Y"}
        /\ Char(t, k + 1) \in {"e", "E"}
        /\ Char(t, k + 2) \in {"s", "S"}

(* C2: fail-closed classification.  is_legal_query returns true exactly    *)
(* when the model call succeeded and its text contains "yes" in any        *)
(* letter case; otherwise, and on every failure of the call, it returns    *)
(* false; no exception leaves it.                                          *)
C2_FailClosed ==
    \A i \in DOMAIN calls :
        calls[i].stage = "is_legal_query" =>
            /\ calls[i].ret = (~calls[i].answer.raised /\ ContainsYesAnyCase(calls[i].answer.text))
            /\ exception = NULL
            /\ pc = IF calls[i].ret THEN "Retrieving" ELSE "Rejected"

C2_Witness ==
    /\ calls # <<>>
    /\ calls[Len(calls)].stage = "is_legal_query"
    /\ calls[Len(calls)].answer.raised
    /\ is_legal = FALSE
    /\ pc = "Rejected"

(* C3: translation identity fallback.  A translate_text call whose model   *)
(* call failed returned exactly its input text; after a failed translation *)
(* to English the request is at classification with the original text, and *)
(* after a failed translation of the draft it is at rendering (or past it) *)
(* with the English draft as the final complaint; no exception was raised. *)
C3_TranslationFallback ==
    \A i \in DOMAIN calls :
        (calls[i].stage \in {"translate_to_english", "translate_to_target"}
            /\ calls[i].answer.raised) =>
            /\ calls[i].ret = calls[i].arg
            /\ IF calls[i].stage = "translate_to_english"
               THEN /\ text_for_processing = original_text
                    /\ i = Len(calls) => (pc = "Classifying" /\ exception = NULL)
               ELSE /\ final_complaint = english_complaint
                    /\ pc \in {"Rendering", "Delivered"}
                    /\ exception = NULL

C3_Witness ==
    /\ pc = "Delivered"
    /\ \E i \in DOMAIN calls : calls[i].stage = "translate_to_english" /\ calls[i].answer.raised
    /\ \E i \in DOMAIN calls : calls[i].stage = "translate_to_target" /\ calls[i].answer.raised

(* C4: for every answer of the store, search_relevant_sections returns at  *)
(* most NumResults records, each with non-null section_number, title and   *)
(* description, and does not fail.                                         *)
C4_SectionsNormalized ==
    \A i \in DOMAIN calls :
        (calls[i].stage = "search_relevant_sections" /\ ~calls[i].answer.raised) =>
            /\ ~calls[i].ret.raised
            /\ Len(calls[i].ret.value) <= NumResults
            /\ \A k \in DOMAIN calls[i].ret.value :
                /\ calls[i].ret.value[k].section_number # NULL
                /\ calls[i].ret.value[k].title # NULL
                /\ calls[i].ret.value[k].description # NULL

(* C5: no failure of an external stage leaves the orchestrator as an       *)
(* unhandled exception: a stage call whose service failed is never the     *)
(* call at which the request was aborted.                                  *)
C5_NoFailureEscapes ==
    \A i \in DOMAIN calls :
        calls[i].answer.raised => ~(i = Len(calls) /\ pc = "Aborted" /\ exception # NULL)

(* C6: drafting failure is returned, not thrown.  When the model call of   *)
(* generate_legal_complaint failed, its result begins with "Error:" and    *)
(* contains the failure detail; when it succeeded, the result is the       *)
(* model's text unchanged; either way the orchestrator received a result   *)
(* and went on, with no exception.                                         *)
C6_DraftingFailureReturned ==
    \A i \in DOMAIN calls :
        calls[i].stage = "generate_legal_complaint" =>
            /\ calls[i].answer.raised =>
                /\ startswith(calls[i].ret, "Error:")
                /\ str_in(calls[i].answer.text, calls[i].ret)
            /\ ~calls[i].answer.raised => calls[i].ret = calls[i].answer.text
            /\ english_complaint = calls[i].ret
            /\ exception = NULL
            /\ pc \in {"TranslatingToTarget", "Rendering", "Delivered"}

C6_Witness ==
    /\ pc = "Delivered"
    /\ \E i \in DOMAIN calls :
        /\ calls[i].stage = "generate_legal_complaint"
        /\ calls[i].answer.raised
        /\ startswith(english_complaint, "Error: Could not generate complaint.")

(* C7: a drafting-failure result (a draft with a leading "Error:") is      *)
(* detected before it is used: it is never the text passed to the output   *)
(* translation or to generate_pdf.                                         *)
C7_ErrorDraftDetected ==
    \A i \in DOMAIN calls :
        calls[i].stage \in {"translate_to_target", "generate_pdf"} =>
            ~startswith(calls[i].arg, "Error:")

\* the complaint the request ends with: the translated draft when the
\* output translation ran, and the draft otherwise
LastResultOf(stage) ==
    calls[CHOOSE i \in DOMAIN calls : calls[i].stage = stage].ret

ComplaintToDeliver ==
    IF \E i \in DOMAIN calls : calls[i].stage = "translate_to_target"
    THEN LastResultOf("translate_to_target")
    ELSE LastResultOf("generate_legal_complaint")

(* C8: once generate_pdf has been called, whether or not it raised, the    *)
(* request is delivered and legal_complaint.txt holds exactly the final    *)
(* complaint text, which is the draft (or its translation) with no         *)
(* placeholder substituted and nothing escaped; a PDF failure leaves only  *)
(* a "PDF Error:" message in place of the PDF button.                      *)
C8_TextAlwaysDelivered ==
    \A i \in DOMAIN calls :
        calls[i].stage = "generate_pdf" =>
            /\ pc = "Delivered"
            /\ exception = NULL
            /\ final_complaint = ComplaintToDeliver
            /\ \E k \in DOMAIN ui :
                ui[k].widget = "legal_complaint.txt" /\ ui[k].body = final_complaint
            /\ IF calls[i].answer.raised
               THEN /\ ui[Len(ui)].widget = "error"
                    /\ startswith(ui[Len(ui)].body, "PDF Error:")
                    /\ ~Shown("legal_complaint.pdf")
               ELSE Shown("legal_complaint.pdf")

C8_Witness ==
    /\ pc = "Delivered"
    /\ calls[Len(calls)].stage = "generate_pdf"
    /\ calls[Len(calls)].answer.raised
    /\ final_complaint = Draft
    /\ \E k \in DOMAIN ui : ui[k].widget = "legal_complaint.txt" /\ ui[k].body = Draft

\* t is exactly n underscores
Underscores(t, n) == Len(t) = n /\ \A j \in 1..Len(t) : Char(t, j) = "_"

RenderedParagraphs ==
    UNION { {calls[i].ret[k] : k \in {k \in DOMAIN calls[i].ret : calls[i].ret[k].kind = "Paragraph"}}
            : i \in {i \in DOMAIN calls : calls[i].stage = "generate_pdf"} }

(* C9: blank-line token width.  A line that is one placeholder of a        *)
(* blank-line family is rendered as exactly floor(width * 20) underscores  *)
(* and nothing else: 3 inches give 60, 2 give 40, 2.5 give 50, 4 give 80   *)
(* and 5 give 100; "[Police Station Name, City]" becomes 60 underscores    *)
(* and "[Date of incident: ___]" becomes 40.                               *)
C9_BlankLineWidth ==
    \A e \in RenderedParagraphs :
        /\ e.line = "[Police Station Name, City]" => Underscores(e.text, 60)
        /\ e.line = "[Date of incident: ___]"     => Underscores(e.text, 40)
        /\ e.line = "[Contact No.]"               => Underscores(e.text, 50)
        /\ e.line = "[Full Address]"              => Underscores(e.text, 80)
        /\ e.line = "[description of the person]" => Underscores(e.text, 100)

C9_Witness ==
    \E e \in RenderedParagraphs :
        e.line = "[Police Station Name, City]" /\ Len(e.text) = 60

\* needle, given in lower case, occurs in t in some mix of letter cases
ContainsAnyCase(needle, t) ==
    \E k \in 1..(Len(t) - Len(needle) + 1) :
        \A j \in 1..Len(needle) : lower(Char(t, k + j - 1)) = Char(needle, j)

IsTitle(line) == ContainsAnyCase("legal complaint", line) /\ Len(line) < 30

HasHeadingKeyword(line) == \E keyword \in heading_keywords : str_in(keyword, line)

(* C10: line-role classification is total, with priority Title > Heading   *)
(* > Address > Body.  A non-blank line is Title iff it contains "LEGAL     *)
(* COMPLAINT" in any letter case and is shorter than 30 characters;        *)
(* otherwise Heading iff it contains a heading keyword, also when it       *)
(* starts with "To,"; otherwise Address iff it starts with "To,";          *)
(* otherwise Body.  Every non-blank line becomes one paragraph with        *)
(* exactly one of the four roles, and every blank line a spacer.           *)
C10_LineRole ==
    \A i \in DOMAIN calls :
        calls[i].stage = "generate_pdf" =>
            /\ Len(calls[i].ret) = Len(split(calls[i].arg, "\n"))
            /\ \A k \in DOMAIN calls[i].ret :
                LET e == calls[i].ret[k]
                IN  /\ e.line = strip(split(calls[i].arg, "\n")[k])
                    /\ (e.kind = "Paragraph") = (e.line # "")
                    /\ e.kind = "Paragraph" =>
                        e.style =
                            IF IsTitle(e.line) THEN "title_style"
                            ELSE IF HasHeadingKeyword(e.line) THEN "heading_style"
                            ELSE IF SubSeq(e.line \o "   ", 1, 3) = "To," THEN "address_style"
                            ELSE "body_style"

C10_Witness ==
    \E e \in RenderedParagraphs :
        /\ e.line = "LEGAL COMPLAINT AGAINST UNKNOWN PERSON FOR THEFT"
        /\ e.style = "body_style"


(***************************************************************************)
(* transcribe_audio_and_detect_language and the voice button that calls    *)
(* it.  "response" is as for the other model calls.                        *)
(***************************************************************************)
\* str.lstrip(chars): drops the leading characters that belong to chars
lstrip_chars(s, chars) ==
    LET keep == {i \in 1..Len(s) : Char(s, i) \notin chars}
    IN  IF keep = {} THEN ""
        ELSE slice(s, CHOOSE i \in keep : \A j \in keep : i <= j, Len(s))

\* str.rstrip(chars): drops the trailing characters that belong to chars
rstrip_chars(s, chars) ==
    LET keep == {i \in 1..Len(s) : Char(s, i) \notin chars}
    IN  IF keep = {} THEN ""
        ELSE slice(s, 1, CHOOSE i \in keep : \A j \in keep : i >= j)

\* A string literal of this language cannot hold the backquote (U+0060), so
\* the character is written "~" here; no other text of the model uses "~".
Backquote == "~"

\* the three backquotes that open and close a Markdown code fence
Fence == Backquote \o Backquote \o Backquote

\* the set of characters of a string, which is what lstrip and rstrip take
chars_of(s) == {Char(s, i) : i \in 1..Len(s)}

\* the JSON documents the model can answer with, and what they decode to
Dict(items) == [type |-> "dict", items |-> items]

JsonDocuments ==
    [doc \in {"{\"transcription\": \"text\", \"language\": \"English\"}",
              "{\"transcription\":\"mera laptop chori ho gaya\",\"language\":\"Hindi\"}",
              "{\"transcription\": \"text\"}",
              "[]"} |->
        CASE doc = "{\"transcription\": \"text\", \"language\": \"English\"}" ->
                 Dict([transcription |-> "text", language |-> "English"])
          [] doc = "{\"transcription\":\"mera laptop chori ho gaya\",\"language\":\"Hindi\"}" ->
                 Dict([transcription |-> "mera laptop chori ho gaya", language |-> "Hindi"])
          [] doc = "{\"transcription\": \"text\"}" ->
                 Dict([transcription |-> "text"])
          [] OTHER -> [type |-> "list", items |-> <<>>]]

\* json.loads: white space around the document is skipped, anything else
\* around it (or no document at all) is a JSONDecodeError
json_loads(s) ==
    IF strip(s) \in DOMAIN JsonDocuments
    THEN [raised |-> FALSE, value |-> JsonDocuments[strip(s)]]
    ELSE [raised |-> TRUE, value |-> "JSONDecodeError"]

\* json_str = response.text.strip()...: the two entry points differ here
json_str(file, text) ==
    IF file = "app"
    THEN rstrip_chars(lstrip_chars(strip(text), chars_of(Fence \o "json")), chars_of(Fence))
    ELSE lstrip_chars(strip(text), chars_of(Fence \o Fence))

\* [failed, value]: failed when the except branch ran, value the pair returned
transcribe_audio_and_detect_language(file, response) ==
    IF response.raised THEN [failed |-> TRUE, value |-> <<NULL, NULL>>]
    ELSE LET result == json_loads(json_str(file, response.text))
         IN  IF result.raised \/ result.value.type # "dict"
             THEN \* JSONDecodeError, or AttributeError from list.get
                  [failed |-> TRUE, value |-> <<NULL, NULL>>]
             ELSE [failed |-> FALSE,
                   value |-> <<dict_get(result.value.items, "transcription", NULL),
                               dict_get(result.value.items, "language", NULL)>>]

FenceOpenings ==
    {"", Fence \o "json\n", Fence \o "json", Fence \o "\n", Fence \o "JSON\n",
     " " \o Fence \o "json \n"}

FenceClosings == {"", "\n" \o Fence, Fence, "\n" \o Fence \o "\n"}

Replies == DOMAIN JsonDocuments \cup {"Sorry, I could not hear anything."}

TranscriptionResponses ==
    {Text(open \o reply \o close) :
        open \in FenceOpenings, reply \in Replies, close \in FenceClosings}
    \cup ModelFailures

InitTranscribe ==
    /\ entry \in Entries
    /\ pc = "Transcribing"
    /\ original_text = NULL
    /\ detected_language = NULL
    /\ output_language \in OutputLanguages
    /\ today \in Dates
    /\ text_for_processing = NULL
    /\ is_legal = FALSE
    /\ ipc_sections = <<>>
    /\ english_complaint = NULL
    /\ final_complaint = NULL
    /\ calls = <<>>
    /\ ui = <<>>
    /\ exception = NULL

\* the "Analyze Voice Input" button with a recording present
VoiceInput(responses) ==
    /\ pc = "Transcribing"
    /\ \E response \in responses :
        LET r == transcribe_audio_and_detect_language(entry, response)
        IN  /\ original_text' = r.value[1]
            /\ detected_language' = r.value[2]
            /\ calls' = Append(calls, Call("transcribe_audio_and_detect_language",
                                           "audio", response, r.value))
            /\ ui' = ui \o (IF r.failed THEN <<Show("error", "Audio processing error")>> ELSE <<>>)
                        \o (IF truthy(r.value[1]) THEN <<Show("info", r.value)>> ELSE <<>>)
            /\ pc' = IF truthy(r.value[1]) THEN "Received" ELSE "Idle"
    /\ UNCHANGED <<entry, output_language, today, text_for_processing, is_legal,
                   ipc_sections, english_complaint, final_complaint, exception>>

NextTranscribe == VoiceInput(TranscriptionResponses)

SpecTranscribe == InitTranscribe /\ [][NextTranscribe]_vars

\* the replies that are a JSON object, with the code fence the prompt's
\* answer usually comes in
FencedObjects ==
    {[text |-> open \o doc \o close, doc |-> doc] :
        open \in {Fence \o "json\n", Fence \o "json"}, close \in {"\n" \o Fence, Fence},
        doc \in {d \in DOMAIN JsonDocuments : JsonDocuments[d].type = "dict"}}

\* C11: a valid JSON object wrapped in a json code fence yields
\* its "transcription" and "language" values (None for a missing key), and a
\* failed call or an undecodable reply yields (None, None).
C11_FencedJsonDecoded ==
    \A i \in 1..Len(calls) :
        calls[i].stage = "transcribe_audio_and_detect_language" =>
            /\ \A f \in FencedObjects :
                calls[i].answer = Text(f.text) =>
                    calls[i].ret = <<dict_get(JsonDocuments[f.doc].items, "transcription", NULL),
                                     dict_get(JsonDocuments[f.doc].items, "language", NULL)>>
            /\ calls[i].answer.raised => calls[i].ret = <<NULL, NULL>>

\* C12: every non-blank line placed in the document, whatever its role, is
\* the stripped line after placeholder substitution followed by the escaping
\* of & < and >; no raw line reaches the layout engine.
C12_ProcessedTextRendered ==
    \A e \in RenderedParagraphs :
        e.text = escape_markup(process_text_for_pdf(e.line, today))

(***************************************************************************)
(* process_text_for_pdf on one-line complaints built around a bracketed    *)
(* placeholder: text before it, the placeholder, text after it.            *)
(***************************************************************************)
PlaceholderTexts ==
    {"Your Name", "NAME OF THE ACCUSED", "Full Address", "Emergency contact no.",
     "User's Signature", "USER'S ID", "complainant's phone", "Signature",
     "the User's details", "Witness", "Date of incident, Name of accused",
     "Current Date, Name", "Police Station Name", "description of the person"}

TextBefore == {"", "Sender: ", "[Witness] ", "[Witness] gave his name as "}

TextAfter == {"", ".", " [Witness]"}

PlaceholderLines ==
    {before \o "[" \o inner \o "]" \o after :
        before \in TextBefore, inner \in PlaceholderTexts, after \in TextAfter}

InitPlaceholders ==
    /\ entry = "app"
    /\ pc = "Rendering"
    /\ original_text = Scenario
    /\ detected_language = "English"
    /\ output_language = "English"
    /\ today \in Dates
    /\ text_for_processing = Scenario
    /\ is_legal = TRUE
    /\ ipc_sections = <<>>
    /\ english_complaint \in PlaceholderLines
    /\ final_complaint = english_complaint
    /\ calls = <<Call("is_legal_query", Scenario, Text("Yes"), TRUE),
                 Call("search_relevant_sections", Scenario, Hits(<<>>, <<>>, <<>>),
                      [raised |-> FALSE, exc |-> NULL, value |-> <<>>]),
                 Call("generate_legal_complaint", Scenario, Text(english_complaint),
                      english_complaint)>>
    /\ ui = <<Show("success", "Valid legal query detected!"), Show("sections", <<>>),
              Show("success", "Complaint generated successfully!")>>
    /\ exception = NULL

NextPlaceholders == Render(BuildOutcomes)

SpecPlaceholders == InitPlaceholders /\ [][NextPlaceholders]_vars

\* t begins with needle (given in lower case) in some mix of letter cases
StartsAnyCase(needle, t) ==
    Len(t) >= Len(needle) /\ ContainsAnyCase(needle, slice(t, 1, Len(needle)))

Count(ch, t) == Cardinality({i \in 1..Len(t) : Char(t, i) = ch})

\* the line has one '[' and one ']', in this order
OneBracketPair(t) ==
    Count("[", t) = 1 /\ Count("]", t) = 1 /\ find(t, "[", 1) < find(t, "]", 1)

\* the text between the first '[' of t and the first ']' after it
InnerText(t) == slice(t, find(t, "[", 1) + 1, find(t, "]", find(t, "[", 1)) - 1)

\* the texts of the bracketed tokens of t: '[' ... ']' with no bracket inside
BracketedTexts(t) ==
    {slice(t, i + 1, find(t, "]", i) - 1) :
        i \in {i \in 1..Len(t) :
                 /\ Char(t, i) = "["
                 /\ find(t, "]", i) # 0
                 /\ ~str_in("[", slice(t, i + 1, find(t, "]", i)))}}

\* out is line with its one bracketed placeholder replaced, in place, by a
\* run of 50 to 100 underscores
ReplacedByBlank(line, out) ==
    LET i == find(line, "[", 1)
        j == find(line, "]", 1)
        n == Len(out) - (i - 1) - (Len(line) - j)
    IN  /\ n \in 50..100
        /\ slice(out, 1, i - 1) = slice(line, 1, i - 1)
        /\ Underscores(slice(out, i, i + n - 1), n)
        /\ slice(out, i + n, Len(out)) = slice(line, j + 1, Len(line))

ListedAnywhere(inner) ==
    \E word \in {"name", "address", "contact", "signature", "complainant's", "user's"} :
        ContainsAnyCase(word, inner)

\* C13 as stated: every bracketed placeholder whose text contains "Name",
\* "Address", "Contact", "Signature", "Complainant's" or "User's", in any
\* letter case and at any position, is replaced by a run of 50 to 100
\* underscores, and none is left in the output as a bracketed token.
C13_ListedFamiliesBlanked ==
    \A e \in RenderedParagraphs :
        /\ OneBracketPair(e.line) /\ ListedAnywhere(InnerText(e.line))
               => ReplacedByBlank(e.line, e.substituted)
        /\ \A inner \in BracketedTexts(e.substituted) : ~ListedAnywhere(inner)

Matched(inner) ==
    \/ \E word \in {"name", "address", "contact"} : ContainsAnyCase(word, inner)
    \/ \E word \in {"user's", "complainant's"} : StartsAnyCase(word, inner)

DateFamily(inner) ==
    \E word \in {"current date", "date of incident", "time of incident"} :
        StartsAnyCase(word, inner)

\* C13 amended: a bracketed placeholder whose text contains "Name",
\* "Address" or "Contact" at any position, or begins with "User's" or
\* "Complainant's" (in any letter case), is never left in the output as a
\* bracketed token; when it is the only bracketed text of its line and
\* does not begin with "Current Date", "Date of incident" or "Time of
\* incident", it is replaced in place by a run of 50 to 100 underscores.
C13_MatchedFamiliesBlanked ==
    \A e \in RenderedParagraphs :
        /\ OneBracketPair(e.line) /\ Matched(InnerText(e.line)) /\ ~DateFamily(InnerText(e.line))
               => ReplacedByBlank(e.line, e.substituted)
        /\ \A inner \in BracketedTexts(e.substituted) : ~Matched(inner)

C13_Witness ==
    \E e \in RenderedParagraphs :
        /\ e.line = "Sender: [Emergency contact no.]."
        /\ Len(e.substituted) = 8 + 50 + 1
        /\ ~str_in("[", e.substituted)

StageOrder ==
    <<"translate_to_english", "is_legal_query", "search_relevant_sections",
      "generate_legal_complaint", "translate_to_target", "generate_pdf">>

Rank(stage) == CHOOSE k \in DOMAIN StageOrder : StageOrder[k] = stage

\* C14: within one request the stage calls, each logged when it returns,
\* occur in the order translate-to-English, classify, retrieve, draft,
\* translate-to-target, render: a later call is always of a later stage, so
\* no stage is called twice, whatever the stages returned or raised.
C14_StageOrder ==
    \A i, j \in DOMAIN calls :
        i < j => Rank(calls[i].stage) < Rank(calls[j].stage)

C14_Witness ==
    /\ pc = "Delivered"
    /\ [i \in DOMAIN calls |-> calls[i].stage] = StageOrder
    /\ calls[1].answer.raised
    /\ calls[5].answer.raised

\* Python truthiness read off the value: neither None nor the empty string
Present(language) == language # NULL /\ language # ""

EnglishAnyCase(language) == Len(language) = 7 /\ ContainsAnyCase("english", language)

NeedsTranslation(language) == Present(language) /\ ~EnglishAnyCase(language)

Called(stage) == \E i \in DOMAIN calls : calls[i].stage = stage

\* the text the later stages are to work on: the translation if one was made
Normalised ==
    IF Called("translate_to_english") THEN LastResultOf("translate_to_english")
    ELSE original_text

SelectedOutputLanguage ==
    IF output_language = "Auto-Detect" THEN detected_language ELSE output_language

\* C15: the input is translated to English iff the detected language is
\* present and not "english" in any letter case; classification, retrieval
\* and drafting all receive the normalised text; the draft is translated iff
\* the output language (the detected one under "Auto-Detect", else the
\* selection) is present and not "english"; otherwise the complaint
\* delivered is the English draft itself.
C15_TranslationGating ==
    /\ pc \notin {"Received", "TranslatingToEnglish"} =>
           (Called("translate_to_english") <=> NeedsTranslation(detected_language))
    /\ \A i \in DOMAIN calls :
           calls[i].stage \in {"is_legal_query", "search_relevant_sections",
                               "generate_legal_complaint"}
               => calls[i].arg = Normalised
    /\ pc \in {"Rendering", "Delivered"} =>
           /\ Called("translate_to_target") <=> NeedsTranslation(SelectedOutputLanguage)
           /\ ~NeedsTranslation(SelectedOutputLanguage) =>
                  final_complaint = LastResultOf("generate_legal_complaint")
    /\ pc = "Delivered" /\ ~NeedsTranslation(SelectedOutputLanguage) =>
           \E k \in DOMAIN ui :
               /\ ui[k].widget = "legal_complaint.txt"
               /\ ui[k].body = LastResultOf("generate_legal_complaint")

C15_Witness ==
    /\ pc = "Delivered"
    /\ detected_language = "Hindi"
    /\ output_language = "English"
    /\ Called("translate_to_english")
    /\ ~Called("translate_to_target")
    /\ \E k \in DOMAIN ui : ui[k].widget = "legal_complaint.txt" /\ ui[k].body = Draft

\* the placeholder texts some rule of process_text_for_pdf is written for
Listed(inner) ==
    \/ Matched(inner)
    \/ DateFamily(inner)
    \/ StartsAnyCase("police station name", inner)
    \/ StartsAnyCase("city, state, india", inner)
    \/ ContainsAnyCase("description of the person", inner)

LastIndexOf(ch, t) ==
    LET hits == {i \in 1..Len(t) : Char(t, i) = ch}
    IN  IF hits = {} THEN 0 ELSE CHOOSE i \in hits : \A j \in hits : i >= j

\* C16: process_text_for_pdf changes only text inside a '[' ... ']' pair of
\* a listed family.  The text before the first '[' and after the last ']'
\* of the line is still there, and every bracketed token of an unlisted
\* family is still in the output, also on a line with several tokens.
C16_SubstitutionConfined ==
    \A e \in RenderedParagraphs :
        LET first == find(e.line, "[", 1)
            after == slice(e.line, LastIndexOf("]", e.line) + 1, Len(e.line))
        IN  /\ first # 0 =>
                   slice(e.substituted, 1, first - 1) = slice(e.line, 1, first - 1)
            /\ slice(e.substituted, Len(e.substituted) - Len(after) + 1,
                     Len(e.substituted)) = after
            /\ \A inner \in BracketedTexts(e.line) :
                   ~Listed(inner) => inner \in BracketedTexts(e.substituted)
====
